---- MODULE Spec2Model ----
(***************************************************************************)
(* State-machine model of cmake/mng_impl.py: the package cache             *)
(* (package_cache), the git and archive acquisition helpers, and the       *)
(* fetch decision logic of package_manager.process_package.                *)
(*                                                                         *)
(* The filesystem below <cache_dir> is modelled per package name:          *)
(*   <cache_dir>/<name>/              parent[name]                         *)
(*   <cache_dir>/<name>/<name>        pkg[name]                            *)
(*   <cache_dir>/<name>/CACHE/.cache  record[name]                         *)
(*   <cache_dir>/<name>_download      tmp[name]                            *)
(* The download file of one name and the directory of another are the same *)
(* path when the second name is "<first>_download".                        *)
(* Paths are sequences of components; the remote world (git, the HTTP      *)
(* server, the archive a URL serves) is a nondeterministic choice.         *)
(***************************************************************************)
EXTENDS Integers, Sequences, FiniteSets, TLC

\* ------------------------------------------------------------------------
\* Inputs
\* ------------------------------------------------------------------------

\* Package names (main --name).  The second name is the name of the file the
\* first one downloads to: <cache_dir>/lib_download.
Names == {"lib", "lib_download"}

\* The name the single-package specification works on.
SoloNames == {"lib"}

\* f"{p_name}_download": the entry of <cache_dir> that holds the download of
\* n (download_archive).
TmpEntry(n) == IF n = "lib" THEN "lib_download" ELSE "lib_download_download"

\* The value of a command-line flag that was not given (Python None).
NoneVal == "None"

\* Values of the descriptor flags (main's argparse arguments).
VersionValues == {NoneVal, "2.0"}
TagValues == {NoneVal, "v1"}
GithubValues == {NoneVal, "own/lib"}
GitRepoValues == {NoneVal, "https://example/lib.git"}
UrlValues == {NoneVal, "https://example/lib.zip", "https://example/lib.tar.gz"}
OptionValues == {NoneVal, "A=1"}

\* The argparse namespace handed to process_package (name is the index).
ArgsSet ==
    [version : VersionValues, git_tag : TagValues,
     github_repository : GithubValues, git_repository : GitRepoValues,
     url : UrlValues, keep_updated : BOOLEAN, options : OptionValues]

NoArgs ==
    [version |-> NoneVal, git_tag |-> NoneVal, github_repository |-> NoneVal,
     git_repository |-> NoneVal, url |-> NoneVal, keep_updated |-> FALSE,
     options |-> NoneVal]

\* Python truthiness of an optional string flag.
Truthy(x) == x # NoneVal /\ x # ""

\* `x or ''`
OrEmpty(x) == IF Truthy(x) THEN x ELSE ""

\* p_url.endswith('.zip')
EndsWithZip(u) == u \in {"https://example/lib.zip"}

\* f"https://github.com/{github_repository}.git"
GithubUrl(g) == IF g = "own/lib" THEN "https://github.com/own/lib.git" ELSE g

\* f"v{version}"
VPrefixed(v) == IF v = "2.0" THEN "v2.0" ELSE v

\* ------------------------------------------------------------------------
\* Cache identity (process_package, package_cache)
\* ------------------------------------------------------------------------

\* NewInfo with the build options kept in the identity.
NewInfoWithOptions(a) ==
    [version |-> OrEmpty(a.version),
     git_tag |-> OrEmpty(a.git_tag),
     github_repository |-> OrEmpty(a.github_repository),
     git_repository |-> OrEmpty(a.git_repository),
     url |-> OrEmpty(a.url),
     options |-> OrEmpty(a.options)]

\* new_info of process_package: the identity fields only, None as ''.
NewInfo(a) ==
    [version |-> OrEmpty(a.version),
     git_tag |-> OrEmpty(a.git_tag),
     github_repository |-> OrEmpty(a.github_repository),
     git_repository |-> OrEmpty(a.git_repository),
     url |-> OrEmpty(a.url)]

EmptyInfo == NewInfo(NoArgs)

\* get_package_hash: json.dumps(sort_keys=True) is the key-order-independent
\* serialisation of the dict, here its set of (key, value) pairs; the
\* truncated SHA-256 of that text is taken to be collision free.
get_package_hash(info) == {<<k, info[k]>> : k \in DOMAIN info}

\* ------------------------------------------------------------------------
\* Archives and extraction (download_archive)
\* ------------------------------------------------------------------------

DirEntry(p) == [path |-> p, isdir |-> TRUE]
FileEntry(p) == [path |-> p, isdir |-> FALSE]

\* The archives a URL may serve.  fmt is the real container format, members
\* the entries in archive order, bad the index of the member whose data is
\* damaged (0: none).
ArchiveIds ==
    {"zipTop", "tarTop", "zipDeep", "tarDeep", "zipOne", "tarOne", "zipEmpty",
     "tarFlat", "zipBad"}

Archive(id) ==
    CASE id = "zipTop" ->
           [fmt |-> "zip", bad |-> 0,
            members |-> <<DirEntry(<<"T">>), FileEntry(<<"T", "a">>)>>]
      [] id = "tarTop" ->
           [fmt |-> "tar", bad |-> 0,
            members |-> <<DirEntry(<<"T">>), FileEntry(<<"T", "a">>)>>]
      [] id = "zipDeep" ->
           [fmt |-> "zip", bad |-> 0,
            members |-> <<FileEntry(<<"T", "s", "a">>),
                          FileEntry(<<"T", "s", "b">>)>>]
      [] id = "tarDeep" ->
           [fmt |-> "tar", bad |-> 0,
            members |-> <<DirEntry(<<"T", "s">>),
                          FileEntry(<<"T", "s", "a">>)>>]
      [] id = "zipOne" ->
           [fmt |-> "zip", bad |-> 0, members |-> <<FileEntry(<<"T", "a">>)>>]
      [] id = "tarOne" ->
           [fmt |-> "tar", bad |-> 0, members |-> <<FileEntry(<<"T", "a">>)>>]
      [] id = "zipEmpty" ->
           [fmt |-> "zip", bad |-> 0, members |-> <<>>]
      [] id = "tarFlat" ->
           [fmt |-> "tar", bad |-> 0,
            members |-> <<FileEntry(<<"a">>), FileEntry(<<"b">>)>>]
      [] OTHER ->
           [fmt |-> "zip", bad |-> 2,
            members |-> <<FileEntry(<<"a">>), FileEntry(<<"b">>)>>]

\* Is p a prefix of q (component-wise)?
IsPrefix(p, q) == Len(p) <= Len(q) /\ SubSeq(q, 1, Len(p)) = p

\* All prefixes of a path, the empty one included.
Prefixes(p) == {SubSeq(p, 1, k) : k \in 0..Len(p)}

\* os.path.commonpath on relative names: the longest sequence of components
\* that starts every name ('' for no common component).
commonpath(paths) ==
    LET common == {c \in Prefixes(CHOOSE p \in paths : TRUE) :
                      \A q \in paths : IsPrefix(c, q)}
    IN CHOOSE c \in common : \A d \in common : Len(d) <= Len(c)

\* common_prefix of download_archive: '' for an archive without members.
CommonPrefix(members) ==
    IF Len(members) = 0 THEN <<>>
    ELSE commonpath({members[i].path : i \in 1..Len(members)})

\* `common_prefix and '/' in common_prefix`: the joined prefix holds a
\* separator exactly when it has two components or more.
StripsPrefix(cp) == Len(cp) >= 2

\* member[len(common_prefix)+1:]
RestOf(p, cp) == SubSeq(p, Len(cp) + 1, Len(p))

\* The package directory: absent, a regular file, or a directory holding
\* the given relative paths (files and directories).
NoPkg == [kind |-> "none", entries |-> {}]
PkgFile == [kind |-> "file", entries |-> {}]
PkgDir(entries) == [kind |-> "dir", entries |-> entries]

\* A path written below the package directory brings its ancestors.
WithAncestors(paths) == UNION {Prefixes(p) \ {<<>>} : p \in paths}

\* The tree left in package_dir by extracting members 1..upto of the archive
\* through the branch the URL selects.
ExtractTree(ar, zipBranch, upto) ==
    LET cp == CommonPrefix(ar.members)
        done == {ar.members[i] : i \in 1..upto}
    IN IF StripsPrefix(cp)
       THEN LET rests == {RestOf(m.path, cp) : m \in done}
                atRoot == {m \in done : RestOf(m.path, cp) = <<>>}
            IN IF zipBranch
               THEN \* target = package_dir / rest; a file member equal to
                    \* the prefix is written at package_dir itself
                    IF \E m \in atRoot : ~m.isdir THEN PkgFile
                    ELSE IF done = {} THEN NoPkg
                    ELSE PkgDir(WithAncestors(rests \ {<<>>}))
               ELSE \* tar: members whose stripped name is '' are skipped
                    IF rests \ {<<>>} = {} THEN NoPkg
                    ELSE PkgDir(WithAncestors(rests \ {<<>>}))
       ELSE \* extractall(package_dir)
            IF done = {} THEN NoPkg
            ELSE PkgDir(WithAncestors({m.path : m \in done}))

\* The extraction step of download_archive on the downloaded file: the tree
\* it leaves and whether it raised.
Extract(content, url) ==
    IF content \notin ArchiveIds
    THEN [tree |-> NoPkg, raised |-> TRUE]
    ELSE LET ar == Archive(content)
             zipBranch == EndsWithZip(url)
         IN IF (ar.fmt = "zip") # zipBranch
            THEN [tree |-> NoPkg, raised |-> TRUE]
            ELSE IF ar.bad > 0
            THEN [tree |-> ExtractTree(ar, zipBranch, ar.bad), raised |-> TRUE]
            ELSE [tree |-> ExtractTree(ar, zipBranch, Len(ar.members)),
                  raised |-> FALSE]

\* ------------------------------------------------------------------------
\* State
\* ------------------------------------------------------------------------

VARIABLES
    root,       \* <cache_dir> exists
    parent,     \* parent[n]: <cache_dir>/<n> exists
    pkg,        \* pkg[n]: the package directory <cache_dir>/<n>/<n>
    record,     \* record[n]: the file <cache_dir>/<n>/CACHE/.cache
    tmp,        \* tmp[n]: the file <cache_dir>/<n>_download
    mgr,        \* a package_manager instance is alive
    memo,       \* memo[n]: m_metadata_cache of the instance
    pc,         \* pc[n]: position of the process_package call on n
    args,       \* args[n]: p_args of the call
    out,        \* out[n]: the STATUS:value lines the call has logged
    calls,      \* calls[n]: the git / network / sleep calls it has made
    attempt,    \* attempt[n]: loop variable of download_with_retry
    err,        \* err[n]: the exception the call raised
    arch,       \* arch[n]: the archive the call downloaded
    updated,    \* updated[n]: result of update_repo in the call
    gitRun,     \* gitRun[n]: how fetch, reset and submodule update ended
    loaded,     \* loaded[n]: what load_cached_info returned
    pre,        \* pre[n]: the filesystem of n when the call started
    builtOpts   \* builtOpts[n]: options of the call that wrote record[n]

fsVars == <<root, parent, pkg, record, tmp>>
mgrVars == <<mgr, memo>>
callVars ==
    <<pc, args, out, calls, attempt, err, arch, updated, gitRun, loaded, pre>>
vars == <<root, parent, pkg, record, tmp, mgr, memo, pc, args, out, calls,
          attempt, err, arch, updated, gitRun, loaded, pre, builtOpts>>

\* p_retries of download_with_retry
Retries == 3

\* The name of the cache root in paths that are logged.
CacheDirName == "cache"

\* get_package_dir: <cache_dir>/<name>/<name>
get_package_dir(n) == <<CacheDirName, n, n>>

\* logger.status: one "STATUS:value" line
StatusLine(s, v) == [status |-> s, value |-> v]

\* One external call: a git command, a download attempt or a sleep.
Call(op, repo, tag, secs) == [op |-> op, repo |-> repo, tag |-> tag, secs |-> secs]

NoRecord == [state |-> "none", info |-> EmptyInfo]
CorruptRecord == [state |-> "corrupt", info |-> EmptyInfo]
OkRecord(info) == [state |-> "ok", info |-> info]

NoMemo == [present |-> FALSE, info |-> EmptyInfo]
Memo(info) == [present |-> TRUE, info |-> info]

\* The part of the filesystem that belongs to n.
Snapshot(n) ==
    [root |-> root, parent |-> parent[n], pkg |-> pkg[n],
     record |-> record[n], tmp |-> tmp[n]]

NoSnapshot ==
    [root |-> FALSE, parent |-> FALSE, pkg |-> NoPkg, record |-> NoRecord,
     tmp |-> "none"]

\* Path.exists() of the package directory
PkgExists(n) == pkg[n].kind # "none"

\* <cache_dir>/<n> exists and is a regular file: the download of another
\* name.
ParentIsFile(n) == \E m \in Names : TmpEntry(m) = n /\ tmp[m] # "none"

\* <cache_dir>/<n>_download exists and is a directory: the directory of
\* another name.
TmpIsDir(n) == \E m \in Names : TmpEntry(n) = m /\ parent[m]

\* How the three git commands of an update ended; "none" for one not run.
GitRun(f, r, s) == [fetch |-> f, reset |-> r, submodule |-> s]
NoGitRun == GitRun("none", "none", "none")

Init ==
    /\ root = FALSE
    /\ parent = [n \in Names |-> FALSE]
    /\ pkg = [n \in Names |-> NoPkg]
    /\ record = [n \in Names |-> NoRecord]
    /\ tmp = [n \in Names |-> "none"]
    /\ mgr = FALSE
    /\ memo = [n \in Names |-> NoMemo]
    /\ pc = [n \in Names |-> "idle"]
    /\ args = [n \in Names |-> NoArgs]
    /\ out = [n \in Names |-> <<>>]
    /\ calls = [n \in Names |-> <<>>]
    /\ attempt = [n \in Names |-> 0]
    /\ err = [n \in Names |-> "none"]
    /\ arch = [n \in Names |-> "none"]
    /\ updated = [n \in Names |-> "none"]
    /\ gitRun = [n \in Names |-> NoGitRun]
    /\ loaded = [n \in Names |-> NoRecord]
    /\ pre = [n \in Names |-> NoSnapshot]
    /\ builtOpts = [n \in Names |-> NoneVal]

\* ------------------------------------------------------------------------
\* package_cache.is_cache_valid and package_manager.clear_package
\* ------------------------------------------------------------------------

\* is_cache_valid that trusts every package directory it finds.
is_cache_valid_trusting(n, info) ==
    [valid |-> PkgExists(n), raised |-> FALSE, memo |-> memo[n]]

\* is_cache_valid(name, info, package_dir): the result, whether json.load
\* raised, and the memo entry of the name afterwards.
is_cache_valid(n, info) ==
    IF ~PkgExists(n) \/ record[n].state = "none"
    THEN [valid |-> FALSE, raised |-> FALSE, memo |-> memo[n]]
    ELSE IF memo[n].present
    THEN [valid |-> get_package_hash(memo[n].info) = get_package_hash(info),
          raised |-> FALSE, memo |-> memo[n]]
    ELSE IF record[n].state = "corrupt"
    THEN [valid |-> FALSE, raised |-> TRUE, memo |-> memo[n]]
    ELSE [valid |-> get_package_hash(record[n].info) = get_package_hash(info),
          raised |-> FALSE, memo |-> Memo(record[n].info)]

\* needs_refetch: not is_cache_valid; an exception of is_cache_valid leaves
\* needs_refetch as it is, with no result.
needs_refetch(n, info) ==
    LET v == is_cache_valid(n, info)
    IN [refetch |-> ~v.raised /\ ~v.valid, raised |-> v.raised, memo |-> v.memo]

\* clear_package that removes the directory and forgets to drop the memo
\* entry.
clear_package_keeps_memo(n, m) ==
    /\ memo' = [memo EXCEPT ![n] = m]
    /\ IF parent[n]
       THEN /\ parent' = [parent EXCEPT ![n] = FALSE]
            /\ pkg' = [pkg EXCEPT ![n] = NoPkg]
            /\ record' = [record EXCEPT ![n] = NoRecord]
            /\ builtOpts' = [builtOpts EXCEPT ![n] = NoneVal]
       ELSE UNCHANGED <<parent, pkg, record, builtOpts>>

\* clear_package as a state change: rmtree of <cache_dir>/<n> and the memo
\* entry dropped, when that directory exists; nothing otherwise.  m is the
\* memo entry of n before the call.
clear_package(n, m) ==
    IF parent[n]
    THEN /\ parent' = [parent EXCEPT ![n] = FALSE]
         /\ pkg' = [pkg EXCEPT ![n] = NoPkg]
         /\ record' = [record EXCEPT ![n] = NoRecord]
         /\ memo' = [memo EXCEPT ![n] = NoMemo]
         /\ builtOpts' = [builtOpts EXCEPT ![n] = NoneVal]
    ELSE /\ memo' = [memo EXCEPT ![n] = m]
         /\ UNCHANGED <<parent, pkg, record, builtOpts>>

\* ------------------------------------------------------------------------
\* Source selection (process_package) and the git helpers
\* ------------------------------------------------------------------------

\* GitRepoOf that prefers the explicit git URL to the GitHub one.
GitRepoExplicitFirst(a) ==
    IF Truthy(a.git_repository) THEN a.git_repository
    ELSE IF Truthy(a.github_repository) THEN GithubUrl(a.github_repository)
    ELSE NoneVal

\* git_repo of process_package: the GitHub URL first, then git_repository.
GitRepoOf(a) ==
    IF Truthy(a.github_repository) THEN GithubUrl(a.github_repository)
    ELSE a.git_repository

\* GitTagOf that lets the version win over the tag.
GitTagVersionFirst(a) ==
    IF Truthy(a.version) THEN VPrefixed(a.version)
    ELSE IF Truthy(a.git_tag) THEN a.git_tag ELSE NoneVal

\* git_tag of process_package: the tag, else v<version>, else None.
GitTagOf(a) ==
    IF Truthy(a.git_tag) THEN a.git_tag
    ELSE IF Truthy(a.version) THEN VPrefixed(a.version) ELSE NoneVal

\* WantsUpdate without the test for a git source.
WantsUpdateAnySource(a) == a.keep_updated

\* The guard of the update branch of process_package.
WantsUpdate(a) ==
    a.keep_updated /\ (Truthy(a.git_repository) \/ Truthy(a.github_repository))

\* The tree of a finished clone, and of one that stopped part-way.
ClonedTree == PkgDir({<<".git">>, <<"src">>})
PartialTree == PkgDir({<<".git">>})

\* update_full that runs the submodule update with check=True as well.
update_full_strict(f, r, s) ==
    LET c1 == <<Call("fetch", NoneVal, NoneVal, 0)>>
        c2 == c1 \o <<Call("reset", NoneVal, NoneVal, 0)>>
        c3 == c2 \o <<Call("submodule", NoneVal, NoneVal, 0)>>
    IN IF f # "ok" THEN [ok |-> FALSE, calls |-> c1]
       ELSE IF r # "ok" THEN [ok |-> FALSE, calls |-> c2]
       ELSE [ok |-> s = "ok", calls |-> c3]

\* git_helper.update_full on the outcomes of git fetch, git reset and git
\* submodule update: fetch and reset run with check=True, the submodule
\* update with check=False; a timeout of any of them raises TimeoutExpired,
\* which is caught like CalledProcessError.
update_full(f, r, s) ==
    LET c1 == <<Call("fetch", NoneVal, NoneVal, 0)>>
        c2 == c1 \o <<Call("reset", NoneVal, NoneVal, 0)>>
        c3 == c2 \o <<Call("submodule", NoneVal, NoneVal, 0)>>
    IN IF f # "ok" THEN [ok |-> FALSE, calls |-> c1]
       ELSE IF r # "ok" THEN [ok |-> FALSE, calls |-> c2]
       ELSE [ok |-> s # "timeout", calls |-> c3]

\* ------------------------------------------------------------------------
\* package_manager.__init__ and the end of the process
\* ------------------------------------------------------------------------

\* package_manager(cache_dir): the cache root is created, the memo is empty.
Construct ==
    /\ ~mgr
    /\ mgr' = TRUE
    /\ root' = TRUE
    /\ memo' = [n \in Names |-> NoMemo]
    /\ UNCHANGED <<parent, pkg, record, tmp, builtOpts>>
    /\ UNCHANGED callVars

\* The process ends; its in-memory state is gone.
Exit ==
    /\ mgr
    /\ \A n \in Names : pc[n] = "idle"
    /\ mgr' = FALSE
    /\ memo' = [n \in Names |-> NoMemo]
    /\ UNCHANGED fsVars
    /\ UNCHANGED callVars
    /\ UNCHANGED builtOpts

\* ------------------------------------------------------------------------
\* process_package, step by step
\* ------------------------------------------------------------------------

\* Lines 360-379: the call starts and new_info is computed.
Start(n, a) ==
    /\ mgr
    /\ pc[n] = "idle"
    /\ pc' = [pc EXCEPT ![n] = "check"]
    /\ args' = [args EXCEPT ![n] = a]
    /\ pre' = [pre EXCEPT ![n] = Snapshot(n)]
    /\ UNCHANGED <<out, calls, attempt, err, arch, updated, gitRun, loaded>>
    /\ UNCHANGED fsVars
    /\ UNCHANGED mgrVars
    /\ UNCHANGED builtOpts

\* Lines 381-385: the validity check and, for an invalid cache, REFETCH and
\* clear_package.
CheckCache(n) ==
    /\ pc[n] = "check"
    /\ LET v == needs_refetch(n, NewInfo(args[n]))
       IN IF ~PkgExists(n)
          THEN /\ pc' = [pc EXCEPT ![n] = "decide"]
               /\ UNCHANGED <<parent, pkg, record, memo, builtOpts, out, err>>
          ELSE IF v.raised
          THEN /\ pc' = [pc EXCEPT ![n] = "error"]
               /\ err' = [err EXCEPT ![n] = "CacheError"]
               /\ UNCHANGED <<parent, pkg, record, memo, builtOpts, out>>
          ELSE IF v.refetch
          THEN /\ out' = [out EXCEPT ![n] = Append(@, StatusLine("REFETCH", <<n>>))]
               /\ clear_package(n, v.memo)
               /\ pc' = [pc EXCEPT ![n] = "decide"]
               /\ UNCHANGED err
          ELSE /\ memo' = [memo EXCEPT ![n] = v.memo]
               /\ pc' = [pc EXCEPT ![n] = "decide"]
               /\ UNCHANGED <<parent, pkg, record, builtOpts, out, err>>
    /\ UNCHANGED <<root, tmp, mgr, args, calls, attempt, arch, updated, gitRun, loaded, pre>>

\* Lines 387-402: an existing package is updated or reused; lines 404-405:
\* a missing one is fetched.
Decide(n) ==
    /\ pc[n] = "decide"
    /\ IF PkgExists(n)
       THEN IF WantsUpdate(args[n])
            THEN /\ out' = [out EXCEPT ![n] = Append(@, StatusLine("UPDATE", <<n>>))]
                 /\ pc' = [pc EXCEPT ![n] = "update"]
            ELSE /\ out' = [out EXCEPT ![n] =
                        @ \o <<StatusLine("CACHED", <<n>>),
                               StatusLine("EXISTS", get_package_dir(n))>>]
                 /\ pc' = [pc EXCEPT ![n] = "done"]
       ELSE /\ pc' = [pc EXCEPT ![n] = "fetch"]
            /\ UNCHANGED out
    /\ UNCHANGED <<args, calls, attempt, err, arch, updated, gitRun, loaded, pre>>
    /\ UNCHANGED fsVars
    /\ UNCHANGED mgrVars
    /\ UNCHANGED builtOpts

\* Outcomes of one git command: exit 0, a nonzero exit, the timeout.
GitOutcomes == {"ok", "fail", "timeout"}

\* Line 391 taken for every result of update_repo.
FallsBackAlways(ok) == TRUE

\* Line 391, "if not self.update_repo(name)": the fallback is taken.
FallsBack(ok) == ~ok

\* The failed update is tried again.
AfterFailedUpdateRetry == "update"

\* Lines 392-394 and 404: after the fallback has cleared the package the
\* call falls through to the fetch.
AfterFailedUpdate == "fetch"

\* Lines 391-397 with update_repo and update_full: on success EXISTS and
\* return, on failure clear_package and the fetch below.
UpdateRepo(n) ==
    /\ pc[n] = "update"
    /\ \E f \in GitOutcomes, r \in GitOutcomes, s \in GitOutcomes :
         LET u == IF PkgExists(n) THEN update_full(f, r, s)
                  ELSE [ok |-> FALSE, calls |-> <<>>]
         IN /\ calls' = [calls EXCEPT ![n] = @ \o u.calls]
            /\ updated' = [updated EXCEPT ![n] = IF u.ok THEN "ok" ELSE "failed"]
            /\ gitRun' = [gitRun EXCEPT ![n] =
                   GitRun(IF Len(u.calls) >= 1 THEN f ELSE "none",
                          IF Len(u.calls) >= 2 THEN r ELSE "none",
                          IF Len(u.calls) >= 3 THEN s ELSE "none")]
            /\ IF FallsBack(u.ok)
               THEN /\ clear_package(n, memo[n])
                    /\ pc' = [pc EXCEPT ![n] = AfterFailedUpdate]
                    /\ UNCHANGED out
               ELSE /\ out' = [out EXCEPT ![n] =
                           Append(@, StatusLine("EXISTS", get_package_dir(n)))]
                    /\ pc' = [pc EXCEPT ![n] = "done"]
                    /\ UNCHANGED <<parent, pkg, record, memo, builtOpts>>
    /\ UNCHANGED <<root, tmp, mgr, args, attempt, err, arch, loaded, pre>>

\* Lines 406-416 with clone_repo and full_clone: the parent directory is
\* made, git clone runs; a clone that fails raises.  git removes the
\* directory of a clone that fails early and leaves it when the checkout or
\* a submodule fails or when the timeout kills it.
FetchClone(n) ==
    /\ pc[n] = "fetch"
    /\ Truthy(GitRepoOf(args[n]))
    /\ ~ParentIsFile(n)
    /\ root' = TRUE
    /\ parent' = [parent EXCEPT ![n] = TRUE]
    /\ calls' = [calls EXCEPT ![n] =
           Append(@, Call("clone", GitRepoOf(args[n]), GitTagOf(args[n]), 0))]
    /\ \E o \in {"ok", "fail_clean", "fail_partial", "timeout"} :
         /\ pkg' = [pkg EXCEPT ![n] =
                CASE o = "ok" -> ClonedTree
                  [] o = "fail_clean" -> NoPkg
                  [] OTHER -> PartialTree]
         /\ pc' = [pc EXCEPT ![n] = IF o = "ok" THEN "save" ELSE "error"]
         /\ err' = [err EXCEPT ![n] =
                CASE o = "ok" -> "none"
                  [] o = "timeout" -> "CloneTimeout"
                  [] OTHER -> "CloneFailed"]
    /\ UNCHANGED <<record, tmp, args, out, attempt, arch, updated, gitRun, loaded, pre>>
    /\ UNCHANGED mgrVars
    /\ UNCHANGED builtOpts

\* Lines 417-419 and 297-301: no git source but a URL; download_archive
\* makes the parent directory and starts the download.
FetchArchive(n) ==
    /\ pc[n] = "fetch"
    /\ ~Truthy(GitRepoOf(args[n]))
    /\ Truthy(args[n].url)
    /\ ~ParentIsFile(n)
    /\ root' = TRUE
    /\ parent' = [parent EXCEPT ![n] = TRUE]
    /\ pc' = [pc EXCEPT ![n] = "download"]
    /\ attempt' = [attempt EXCEPT ![n] = 0]
    /\ UNCHANGED <<pkg, record, tmp, args, out, calls, err, arch, updated, gitRun, loaded, pre>>
    /\ UNCHANGED mgrVars
    /\ UNCHANGED builtOpts

\* Lines 279 and 298: package_dir.parent.mkdir(parents=True, exist_ok=True)
\* of clone_repo and download_archive raises FileExistsError when
\* <cache_dir>/<n> is a regular file.
FetchMkdirFails(n) ==
    /\ pc[n] = "fetch"
    /\ Truthy(GitRepoOf(args[n])) \/ Truthy(args[n].url)
    /\ ParentIsFile(n)
    /\ pc' = [pc EXCEPT ![n] = "error"]
    /\ err' = [err EXCEPT ![n] = "FileExists"]
    /\ UNCHANGED <<args, out, calls, attempt, arch, updated, gitRun, loaded, pre>>
    /\ UNCHANGED fsVars
    /\ UNCHANGED mgrVars
    /\ UNCHANGED builtOpts

\* Lines 420-421: no source at all.
FetchNoSource(n) ==
    /\ pc[n] = "fetch"
    /\ ~Truthy(GitRepoOf(args[n]))
    /\ ~Truthy(args[n].url)
    /\ pc' = [pc EXCEPT ![n] = "error"]
    /\ err' = [err EXCEPT ![n] = "NoSource"]
    /\ UNCHANGED <<args, out, calls, attempt, arch, updated, gitRun, loaded, pre>>
    /\ UNCHANGED fsVars
    /\ UNCHANGED mgrVars
    /\ UNCHANGED builtOpts

\* ------------------------------------------------------------------------
\* download_archive: download_with_retry, extraction, clean-up
\* ------------------------------------------------------------------------

\* 2 * attempt
WaitTwice(k) == 2 * k

\* 2 ** attempt
Pow2(k) == IF k = 0 THEN 1 ELSE IF k = 1 THEN 2 ELSE IF k = 2 THEN 4 ELSE 8

\* Lines 64-104: an attempt that succeeds; the destination file is opened
\* with 'wb' and holds the archive the server sent.
DownloadOk(n) ==
    /\ pc[n] = "download"
    /\ ~TmpIsDir(n)
    /\ \E a \in ArchiveIds : tmp' = [tmp EXCEPT ![n] = a]
    /\ calls' = [calls EXCEPT ![n] = Append(@, Call("download", args[n].url, NoneVal, 0))]
    /\ pc' = [pc EXCEPT ![n] = "extract"]
    /\ UNCHANGED <<root, parent, pkg, record, args, out, attempt, err, arch, updated, gitRun, loaded, pre>>
    /\ UNCHANGED mgrVars
    /\ UNCHANGED builtOpts

\* Lines 106-113: an attempt that fails with URLError, HTTPError or
\* TimeoutError, either in urlopen (the destination is not touched) or while
\* the body is read (the destination holds a part of it); a retry after
\* 2 ** attempt seconds, or the exception after the last attempt.
DownloadError(n) ==
    /\ pc[n] = "download"
    /\ \E midway \in BOOLEAN :
         /\ midway => ~TmpIsDir(n)
         /\ tmp' = [tmp EXCEPT ![n] = IF midway THEN "partial" ELSE @]
    /\ IF attempt[n] < Retries - 1
       THEN /\ calls' = [calls EXCEPT ![n] =
                   @ \o <<Call("download", args[n].url, NoneVal, 0),
                          Call("sleep", NoneVal, NoneVal, Pow2(attempt[n]))>>]
            /\ attempt' = [attempt EXCEPT ![n] = @ + 1]
            /\ UNCHANGED <<pc, err>>
       ELSE /\ calls' = [calls EXCEPT ![n] =
                   Append(@, Call("download", args[n].url, NoneVal, 0))]
            /\ pc' = [pc EXCEPT ![n] = "error"]
            /\ err' = [err EXCEPT ![n] = "DownloadFailed"]
            /\ UNCHANGED attempt
    /\ UNCHANGED <<root, parent, pkg, record, args, out, arch, updated, gitRun, loaded, pre>>
    /\ UNCHANGED mgrVars
    /\ UNCHANGED builtOpts

\* An attempt that ends with an exception download_with_retry does not
\* catch: in urlopen or while the headers are read (a closed connection, a
\* Content-Length that is no number), with the destination not touched, or
\* while the body is read (a reset connection, an interrupt), with a part
\* of it in the destination.  It leaves download_archive at once.
DownloadAbort(n) ==
    /\ pc[n] = "download"
    /\ \E midway \in BOOLEAN :
         /\ midway => ~TmpIsDir(n)
         /\ tmp' = [tmp EXCEPT ![n] = IF midway THEN "partial" ELSE @]
    /\ calls' = [calls EXCEPT ![n] = Append(@, Call("download", args[n].url, NoneVal, 0))]
    /\ pc' = [pc EXCEPT ![n] = "error"]
    /\ err' = [err EXCEPT ![n] = "DownloadAborted"]
    /\ UNCHANGED <<root, parent, pkg, record, args, out, attempt, arch, updated, gitRun, loaded, pre>>
    /\ UNCHANGED mgrVars
    /\ UNCHANGED builtOpts

\* Line 88: the server has answered, open(p_dest, 'wb') raises
\* IsADirectoryError when <cache_dir>/<n>_download is a directory; the
\* handlers of download_with_retry do not catch it.
DownloadOpenFails(n) ==
    /\ pc[n] = "download"
    /\ TmpIsDir(n)
    /\ calls' = [calls EXCEPT ![n] = Append(@, Call("download", args[n].url, NoneVal, 0))]
    /\ pc' = [pc EXCEPT ![n] = "error"]
    /\ err' = [err EXCEPT ![n] = "IsADirectory"]
    /\ UNCHANGED <<args, out, attempt, arch, updated, gitRun, loaded, pre>>
    /\ UNCHANGED fsVars
    /\ UNCHANGED mgrVars
    /\ UNCHANGED builtOpts

\* Lines 306-358: the try block extracts into the package directory, the
\* finally block unlinks the downloaded file.
ExtractArchive(n) ==
    /\ pc[n] = "extract"
    /\ LET x == Extract(tmp[n], args[n].url)
       IN /\ pkg' = [pkg EXCEPT ![n] = x.tree]
          /\ pc' = [pc EXCEPT ![n] = IF x.raised THEN "error" ELSE "save"]
          /\ err' = [err EXCEPT ![n] = IF x.raised THEN "ExtractFailed" ELSE "none"]
    /\ arch' = [arch EXCEPT ![n] = tmp[n]]
    /\ tmp' = [tmp EXCEPT ![n] = "none"]
    /\ UNCHANGED <<root, parent, record, args, out, calls, attempt, updated, gitRun, loaded, pre>>
    /\ UNCHANGED mgrVars
    /\ UNCHANGED builtOpts

\* Lines 423-425 with save_cached_info and get_cache_file: the CACHE
\* directory is made, the record written, SUCCESS logged.
SaveInfo(n) ==
    /\ pc[n] = "save"
    /\ root' = TRUE
    /\ parent' = [parent EXCEPT ![n] = TRUE]
    /\ record' = [record EXCEPT ![n] = OkRecord(NewInfo(args[n]))]
    /\ builtOpts' = [builtOpts EXCEPT ![n] = args[n].options]
    /\ out' = [out EXCEPT ![n] = Append(@, StatusLine("SUCCESS", get_package_dir(n)))]
    /\ pc' = [pc EXCEPT ![n] = "done"]
    /\ UNCHANGED <<pkg, tmp, args, calls, attempt, err, arch, updated, gitRun, loaded, pre>>
    /\ UNCHANGED mgrVars

\* A call on the instance has returned or raised; the caller goes on.
Return(n) ==
    /\ pc[n] \in {"done", "error", "cleared", "clearfailed", "returned", "raised"}
    /\ pc' = [pc EXCEPT ![n] = "idle"]
    /\ args' = [args EXCEPT ![n] = NoArgs]
    /\ out' = [out EXCEPT ![n] = <<>>]
    /\ calls' = [calls EXCEPT ![n] = <<>>]
    /\ attempt' = [attempt EXCEPT ![n] = 0]
    /\ err' = [err EXCEPT ![n] = "none"]
    /\ arch' = [arch EXCEPT ![n] = "none"]
    /\ updated' = [updated EXCEPT ![n] = "none"]
    /\ gitRun' = [gitRun EXCEPT ![n] = NoGitRun]
    /\ loaded' = [loaded EXCEPT ![n] = NoRecord]
    /\ pre' = [pre EXCEPT ![n] = NoSnapshot]
    /\ UNCHANGED fsVars
    /\ UNCHANGED mgrVars
    /\ UNCHANGED builtOpts

\* ------------------------------------------------------------------------
\* Clearing, and damage to a record from outside
\* ------------------------------------------------------------------------

\* clear_package(name) called on the instance between two process_package
\* calls (main with --clear-cache --clear-package), lines 264-267 and 273:
\* package_parent.exists() is evaluated; when it is false the call returns.
ClearPackage(n) ==
    /\ mgr
    /\ pc[n] = "idle"
    /\ pre' = [pre EXCEPT ![n] = Snapshot(n)]
    /\ pc' = [pc EXCEPT ![n] =
           IF parent[n] \/ ParentIsFile(n) THEN "clearing" ELSE "cleared"]
    /\ UNCHANGED <<args, out, calls, attempt, err, arch, updated, gitRun, loaded>>
    /\ UNCHANGED fsVars
    /\ UNCHANGED mgrVars
    /\ UNCHANGED builtOpts

\* Lines 268-272: shutil.rmtree and the memo entry.  rmtree raises
\* NotADirectoryError when <cache_dir>/<n> is a regular file and
\* FileNotFoundError when it has gone since the test.
ClearRemove(n) ==
    /\ pc[n] = "clearing"
    /\ IF ParentIsFile(n)
       THEN /\ pc' = [pc EXCEPT ![n] = "clearfailed"]
            /\ err' = [err EXCEPT ![n] = "NotADirectory"]
            /\ UNCHANGED <<parent, pkg, record, memo, builtOpts>>
       ELSE IF ~parent[n]
       THEN /\ pc' = [pc EXCEPT ![n] = "clearfailed"]
            /\ err' = [err EXCEPT ![n] = "FileNotFound"]
            /\ UNCHANGED <<parent, pkg, record, memo, builtOpts>>
       ELSE /\ clear_package(n, memo[n])
            /\ pc' = [pc EXCEPT ![n] = "cleared"]
            /\ UNCHANGED err
    /\ UNCHANGED <<root, tmp, mgr, args, out, calls, attempt, arch, updated, gitRun, loaded, pre>>

\* The rest of load_cached_info once get_cache_file has returned: the
\* record file is read, without the memo: {} when there is none, the record
\* when json.load parses it, its exception otherwise.
ReadRecord(n) ==
    IF record[n].state = "corrupt"
    THEN /\ pc' = [pc EXCEPT ![n] = "raised"]
         /\ err' = [err EXCEPT ![n] = "CacheError"]
         /\ UNCHANGED loaded
    ELSE /\ pc' = [pc EXCEPT ![n] = "returned"]
         /\ loaded' = [loaded EXCEPT ![n] = record[n]]
         /\ UNCHANGED err

\* get_cache_file(name) called on the instance, line 241:
\* mkdir(parents=True, exist_ok=True) of <cache_dir>/<n>/CACHE first tries
\* os.mkdir of CACHE itself.  That succeeds (or finds CACHE) when
\* <cache_dir>/<n> is a directory, raises NotADirectoryError when it is a
\* regular file, and fails with ENOENT when it is missing: then the parent
\* is made in a step of its own.
GetCacheFile(n) ==
    /\ mgr
    /\ pc[n] = "idle"
    /\ pre' = [pre EXCEPT ![n] = Snapshot(n)]
    /\ IF ParentIsFile(n)
       THEN /\ pc' = [pc EXCEPT ![n] = "raised"]
            /\ err' = [err EXCEPT ![n] = "NotADirectory"]
       ELSE /\ pc' = [pc EXCEPT ![n] = IF parent[n] THEN "returned" ELSE "getmkdir"]
            /\ UNCHANGED err
    /\ UNCHANGED <<args, out, calls, attempt, arch, updated, gitRun, loaded>>
    /\ UNCHANGED fsVars
    /\ UNCHANGED mgrVars
    /\ UNCHANGED builtOpts

\* load_cached_info(name) called on the instance: get_cache_file as above,
\* then the record is read.
LoadCachedInfo(n) ==
    /\ mgr
    /\ pc[n] = "idle"
    /\ pre' = [pre EXCEPT ![n] = Snapshot(n)]
    /\ IF ParentIsFile(n)
       THEN /\ pc' = [pc EXCEPT ![n] = "raised"]
            /\ err' = [err EXCEPT ![n] = "NotADirectory"]
            /\ UNCHANGED loaded
       ELSE IF parent[n]
       THEN ReadRecord(n)
       ELSE /\ pc' = [pc EXCEPT ![n] = "loadmkdir"]
            /\ UNCHANGED <<err, loaded>>
    /\ UNCHANGED <<args, out, calls, attempt, arch, updated, gitRun>>
    /\ UNCHANGED fsVars
    /\ UNCHANGED mgrVars
    /\ UNCHANGED builtOpts

\* Line 241 after ENOENT: pathlib makes <cache_dir>/<n> with a second
\* os.mkdir, which raises FileExistsError when a regular file has appeared
\* there since the first try, and then makes CACHE; load_cached_info goes
\* on to read the record.
MkdirParent(n) ==
    /\ pc[n] \in {"getmkdir", "loadmkdir"}
    /\ IF ParentIsFile(n)
       THEN /\ pc' = [pc EXCEPT ![n] = "raised"]
            /\ err' = [err EXCEPT ![n] = "FileExists"]
            /\ UNCHANGED <<root, parent, loaded>>
       ELSE /\ root' = TRUE
            /\ parent' = [parent EXCEPT ![n] = TRUE]
            /\ IF pc[n] = "loadmkdir"
               THEN ReadRecord(n)
               ELSE /\ pc' = [pc EXCEPT ![n] = "returned"]
                    /\ UNCHANGED <<err, loaded>>
    /\ UNCHANGED <<pkg, record, tmp, args, out, calls, attempt, arch, updated, gitRun, pre>>
    /\ UNCHANGED mgrVars
    /\ UNCHANGED builtOpts

\* main with --clear-cache alone, as one run of the program: the cache root
\* is removed with all it holds and made again.
MainClearAll ==
    /\ ~mgr
    /\ \A n \in Names : pc[n] = "idle"
    /\ root' = TRUE
    /\ parent' = [n \in Names |-> FALSE]
    /\ pkg' = [n \in Names |-> NoPkg]
    /\ record' = [n \in Names |-> NoRecord]
    /\ tmp' = [n \in Names |-> "none"]
    /\ builtOpts' = [n \in Names |-> NoneVal]
    /\ UNCHANGED mgrVars
    /\ UNCHANGED callVars

\* The record file is damaged between two calls (a write cut short, a disk
\* fault): json.load no longer parses it.
DamageRecord(n) ==
    /\ pc[n] = "idle"
    /\ record[n].state = "ok"
    /\ record' = [record EXCEPT ![n] = CorruptRecord]
    /\ builtOpts' = [builtOpts EXCEPT ![n] = NoneVal]
    /\ UNCHANGED <<root, parent, pkg, tmp>>
    /\ UNCHANGED mgrVars
    /\ UNCHANGED callVars

\* ------------------------------------------------------------------------
\* Specification
\* ------------------------------------------------------------------------

\* Calls on one package name.
Next ==
    \/ Construct
    \/ Exit
    \/ MainClearAll
    \/ \E n \in SoloNames :
         \/ \E a \in ArgsSet : Start(n, a)
         \/ CheckCache(n)
         \/ Decide(n)
         \/ UpdateRepo(n)
         \/ FetchClone(n)
         \/ FetchArchive(n)
         \/ FetchNoSource(n)
         \/ DownloadOk(n)
         \/ DownloadError(n)
         \/ DownloadAbort(n)
         \/ ExtractArchive(n)
         \/ SaveInfo(n)
         \/ Return(n)
         \/ ClearPackage(n)
         \/ ClearRemove(n)
         \/ GetCacheFile(n)
         \/ LoadCachedInfo(n)
         \/ MkdirParent(n)
         \/ DamageRecord(n)

Spec == Init /\ [][Next]_vars

\* The same without damage from outside: nothing but calls on the instance
\* and runs of main touch the cache.
NextCalls ==
    \/ Construct
    \/ Exit
    \/ MainClearAll
    \/ \E n \in SoloNames :
         \/ \E a \in ArgsSet : Start(n, a)
         \/ CheckCache(n)
         \/ Decide(n)
         \/ UpdateRepo(n)
         \/ FetchClone(n)
         \/ FetchArchive(n)
         \/ FetchNoSource(n)
         \/ DownloadOk(n)
         \/ DownloadError(n)
         \/ DownloadAbort(n)
         \/ ExtractArchive(n)
         \/ SaveInfo(n)
         \/ Return(n)
         \/ ClearPackage(n)
         \/ ClearRemove(n)
         \/ GetCacheFile(n)
         \/ LoadCachedInfo(n)
         \/ MkdirParent(n)

SpecCalls == Init /\ [][NextCalls]_vars

\* Descriptors of the two-package specification: an archive, a git
\* repository.
PairArgs ==
    {a \in ArgsSet :
        /\ a.version = NoneVal /\ a.git_tag = NoneVal
        /\ a.github_repository = NoneVal /\ a.options = NoneVal
        /\ ~a.keep_updated
        /\ (a.git_repository = NoneVal) # (a.url = NoneVal)
        /\ a.url # "https://example/lib.tar.gz"}

\* Invocations on two package names that run side by side, each in a
\* process of its own whose memo holds the entry of its name.
NextPair ==
    \/ Construct
    \/ Exit
    \/ \E n \in Names :
         \/ \E a \in PairArgs : Start(n, a)
         \/ CheckCache(n)
         \/ Decide(n)
         \/ FetchClone(n)
         \/ FetchArchive(n)
         \/ FetchMkdirFails(n)
         \/ DownloadOk(n)
         \/ DownloadError(n)
         \/ DownloadAbort(n)
         \/ DownloadOpenFails(n)
         \/ ExtractArchive(n)
         \/ SaveInfo(n)
         \/ Return(n)
         \/ ClearPackage(n)
         \/ ClearRemove(n)
         \/ GetCacheFile(n)
         \/ LoadCachedInfo(n)
         \/ MkdirParent(n)

SpecPair == Init /\ [][NextPair]_vars

TypeOK ==
    /\ root \in BOOLEAN
    /\ mgr \in BOOLEAN
    /\ \A n \in Names :
         /\ parent[n] \in BOOLEAN
         /\ pkg[n].kind \in {"none", "file", "dir"}
         /\ record[n].state \in {"none", "corrupt", "ok"}
         /\ tmp[n] \in {"none", "partial"} \cup ArchiveIds
         /\ pc[n] \in {"idle", "check", "decide", "update", "fetch", "download",
                       "extract", "save", "done", "error", "clearing",
                       "cleared", "clearfailed", "getmkdir", "loadmkdir",
                       "returned", "raised"}
         /\ ~(parent[n] /\ ParentIsFile(n))
         /\ attempt[n] \in 0..(Retries - 1)

\* ------------------------------------------------------------------------
\* Vocabulary of the properties
\* ------------------------------------------------------------------------

\* process_package on n has returned (done) or raised (error).
Finished(n) == pc[n] \in {"done", "error"}

HasStatus(n, s) == \E i \in 1..Len(out[n]) : out[n][i].status = s

HasCall(n, op) == \E i \in 1..Len(calls[n]) : calls[n][i].op = op

\* A network or VCS call: everything but the sleeps between retries.
NetworkCalls(n) == {i \in 1..Len(calls[n]) : calls[n][i].op # "sleep"}

\* The identity fields of the descriptor equal those of a stored record.
SameIdentity(info, a) ==
    /\ info.version = OrEmpty(a.version)
    /\ info.git_tag = OrEmpty(a.git_tag)
    /\ info.github_repository = OrEmpty(a.github_repository)
    /\ info.git_repository = OrEmpty(a.git_repository)
    /\ info.url = OrEmpty(a.url)

\* The descriptor names a git source / any source.
HasGitSource(a) == Truthy(a.github_repository) \/ Truthy(a.git_repository)
HasSource(a) == HasGitSource(a) \/ Truthy(a.url)

\* The call on n started on a cache that an earlier successful call built
\* for the same descriptor: the directory is there and the record is it.
StartedOnOwnCache(n) ==
    /\ pre[n].pkg.kind # "none"
    /\ pre[n].record.state = "ok"
    /\ SameIdentity(pre[n].record.info, args[n])

\* The call on n started with nothing of n on disk.
StartedOnEmptyCache(n) ==
    /\ pre[n].pkg.kind = "none"
    /\ pre[n].record.state = "none"
    /\ ~pre[n].parent

\* Every entry of the archive lies under one top-level directory.
SingleTopLevel(ar) ==
    /\ Len(ar.members) > 0
    /\ \A i, j \in 1..Len(ar.members) : ar.members[i].path[1] = ar.members[j].path[1]
    /\ \A i \in 1..Len(ar.members) :
         Len(ar.members[i].path) >= 2 \/ ar.members[i].isdir

\* ------------------------------------------------------------------------
\* C1
\* ------------------------------------------------------------------------

\* C1: whenever download_archive has returned or raised, whatever the
\* download and the extraction did, the temporary file
\* <cache_dir>/<name>_download does not exist.
C1_TempFileGoneOnEveryExit ==
    \A n \in Names :
        (Finished(n) /\ HasCall(n, "download")) => tmp[n] = "none"

\* ------------------------------------------------------------------------
\* C2
\* ------------------------------------------------------------------------

\* C2: after the extraction of an archive whose entries all lie under one
\* top-level directory T, dest_dir/T does not exist and every inner entry
\* T/p is present at dest_dir/p.
C2_TopLevelDirectoryStripped ==
    \A n \in Names :
        (pc[n] \in {"save", "done"} /\ arch[n] \in ArchiveIds
            /\ SingleTopLevel(Archive(arch[n])))
        => LET ar == Archive(arch[n])
               T == ar.members[1].path[1]
           IN /\ <<T>> \notin pkg[n].entries
              /\ \A i \in 1..Len(ar.members) :
                    Len(ar.members[i].path) >= 2
                    => /\ pkg[n].kind = "dir"
                       /\ Tail(ar.members[i].path) \in pkg[n].entries

\* ------------------------------------------------------------------------
\* C3
\* ------------------------------------------------------------------------

\* The outcome of a call that only reuses the cache.
ReusedWithoutCalls(n) ==
    /\ pc[n] = "done"
    /\ NetworkCalls(n) = {}
    /\ out[n] = <<StatusLine("CACHED", <<n>>),
                  StatusLine("EXISTS", get_package_dir(n))>>

\* C3 as stated: a second call with the identical descriptor on the valid
\* cache of the first makes no network or VCS call and reports
\* CACHED and EXISTS.
C3_SecondCallAlwaysReuses ==
    \A n \in Names :
        (Finished(n) /\ StartedOnOwnCache(n)) => ReusedWithoutCalls(n)

\* C3 amended: the same, for a call that does not ask for keep-updated or
\* whose descriptor has no git source.
C3_SecondCallReusesUnlessUpdating ==
    \A n \in Names :
        (Finished(n) /\ StartedOnOwnCache(n)
            /\ ~(args[n].keep_updated /\ HasGitSource(args[n])))
        => ReusedWithoutCalls(n)

\* A call has reused, without keep-updated, the cache of its descriptor.
C3_Witness ==
    \E n \in Names :
        /\ pc[n] = "done"
        /\ StartedOnOwnCache(n)
        /\ ~args[n].keep_updated
        /\ HasStatus(n, "CACHED")

\* ------------------------------------------------------------------------
\* C4
\* ------------------------------------------------------------------------

\* C4: a call whose descriptor differs in an identity field from the one a
\* successful fetch recorded reports REFETCH first, and then fetches afresh.
C4_ChangedIdentityRefetches ==
    \A n \in Names :
        (Finished(n) /\ pre[n].record.state = "ok"
            /\ ~SameIdentity(pre[n].record.info, args[n]))
        => /\ Len(out[n]) >= 1
           /\ out[n][1] = StatusLine("REFETCH", <<n>>)
           /\ (HasCall(n, "clone") \/ HasCall(n, "download"))

\* ------------------------------------------------------------------------
\* C5
\* ------------------------------------------------------------------------

\* C5: the build options do not enter anything process_package decides
\* with (the identity, the update guard, the source, the tag), and a call on
\* the valid cache of its descriptor never reports REFETCH, whatever its
\* options.
C5_OptionsExcluded ==
    \A n \in Names :
        /\ pc[n] # "idle" =>
             \A o \in OptionValues :
                LET b == [args[n] EXCEPT !.options = o]
                IN /\ get_package_hash(NewInfo(b)) = get_package_hash(NewInfo(args[n]))
                   /\ WantsUpdate(b) = WantsUpdate(args[n])
                   /\ GitRepoOf(b) = GitRepoOf(args[n])
                   /\ GitTagOf(b) = GitTagOf(args[n])
        /\ (Finished(n) /\ StartedOnOwnCache(n)) => ~HasStatus(n, "REFETCH")

\* A call has reused a cache that was built with other options.
C5_Witness ==
    \E n \in Names :
        /\ pc[n] = "done"
        /\ StartedOnOwnCache(n)
        /\ record[n].state = "ok"
        /\ builtOpts[n] # args[n].options
        /\ HasStatus(n, "CACHED")

\* ------------------------------------------------------------------------
\* C6
\* ------------------------------------------------------------------------

\* C6: a call in which update_repo failed ends with the package directory
\* and the record both there (refetched), or both absent and an error; never
\* a directory without a record.
C6_UpdateFallbackLeavesNoStaleDirectory ==
    \A n \in Names :
        (Finished(n) /\ updated[n] = "failed")
        => \/ pc[n] = "done" /\ pkg[n].kind # "none" /\ record[n].state = "ok"
           \/ pc[n] = "error" /\ pkg[n].kind = "none" /\ record[n].state = "none"

\* ------------------------------------------------------------------------
\* C7
\* ------------------------------------------------------------------------

\* C7: when the acquisition fails (clone, download after its retries,
\* extraction) the call raises and leaves neither record nor directory.
C7_FailedFetchLeavesAbsent ==
    \A n \in Names :
        (pc[n] = "error" /\ err[n] \in {"CloneFailed", "DownloadFailed", "ExtractFailed"})
        => record[n].state = "none" /\ pkg[n].kind = "none"

\* ------------------------------------------------------------------------
\* C8
\* ------------------------------------------------------------------------

\* C8: a call that finds a corrupt record beside the package directory does
\* not fail on it: it reports REFETCH and goes on to refetch.
C8_CorruptRecordIsRefetched ==
    \A n \in Names :
        (Finished(n) /\ pre[n].pkg.kind # "none" /\ pre[n].record.state = "corrupt")
        => /\ err[n] # "CacheError"
           /\ Len(out[n]) >= 1
           /\ out[n][1] = StatusLine("REFETCH", <<n>>)

\* ------------------------------------------------------------------------
\* C9
\* ------------------------------------------------------------------------

\* C9: a call whose descriptor names no source fails with the error for it
\* and leaves the filesystem of the package as it found it, whether the
\* package was absent, cached or stale (a readable record or none).
C9_NoSourceTouchesNothing ==
    \A n \in Names :
        (Finished(n) /\ ~HasSource(args[n]) /\ pre[n].record.state # "corrupt")
        => /\ pc[n] = "error"
           /\ err[n] = "NoSource"
           /\ Snapshot(n) = pre[n]

\* ------------------------------------------------------------------------
\* C10
\* ------------------------------------------------------------------------

\* A call on an empty cache with a git source and a tag.
FreshTaggedGitCall(n) ==
    /\ Finished(n)
    /\ StartedOnEmptyCache(n)
    /\ HasGitSource(args[n])
    /\ Truthy(args[n].git_tag)

\* Its one external call is the clone of the source at that tag.
ClonedAtTag(n) ==
    /\ Len(calls[n]) = 1
    /\ calls[n][1].op = "clone"
    /\ calls[n][1].repo = GitRepoOf(args[n])
    /\ calls[n][1].tag = args[n].git_tag

\* C10 as stated: the clone is pinned to the tag and, when it succeeds, the
\* line EXISTS:<cache_dir>/<name>/<name> is logged.
C10_FreshFetchReportsExists ==
    \A n \in Names :
        FreshTaggedGitCall(n)
        => /\ ClonedAtTag(n)
           /\ pc[n] = "done" =>
                \E i \in 1..Len(out[n]) :
                    out[n][i] = StatusLine("EXISTS", get_package_dir(n))

\* C10 amended: the clone is pinned to the tag and, when it succeeds, the
\* only status line is SUCCESS:<cache_dir>/<name>/<name>.
C10_FreshFetchReportsSuccess ==
    \A n \in Names :
        FreshTaggedGitCall(n)
        => /\ ClonedAtTag(n)
           /\ pc[n] = "done" =>
                out[n] = <<StatusLine("SUCCESS", get_package_dir(n))>>

\* A fresh clone at a tag has succeeded.
C10_Witness ==
    \E n \in Names :
        /\ FreshTaggedGitCall(n)
        /\ pc[n] = "done"
        /\ pkg[n] = ClonedTree
        /\ record[n].state = "ok"

\* ------------------------------------------------------------------------
\* C11: keep-updated on a valid cache
\* ------------------------------------------------------------------------

\* The call on n asked for keep-updated with a git source on the valid cache
\* of its descriptor, and its update succeeded.
UpdatedOwnCache(n) ==
    /\ Finished(n)
    /\ StartedOnOwnCache(n)
    /\ args[n].keep_updated
    /\ HasGitSource(args[n])
    /\ updated[n] = "ok"

\* C11: a call with keep-updated and a git source on the valid cache of its
\* descriptor whose update succeeds logs UPDATE:<name> and then
\* EXISTS:<path> and nothing else, returns, runs no clone and no download,
\* and leaves the package directory and its record in place.
C11_UpdateSuccessKeepsCache ==
    \A n \in Names :
        UpdatedOwnCache(n) =>
            /\ pc[n] = "done"
            /\ out[n] = <<StatusLine("UPDATE", <<n>>),
                          StatusLine("EXISTS", <<CacheDirName, n, n>>)>>
            /\ ~HasCall(n, "clone")
            /\ ~HasCall(n, "download")
            /\ PkgExists(n)
            /\ pkg[n] = pre[n].pkg
            /\ record[n] = pre[n].record

\* Such a call has finished after all three git commands of the update.
C11_Witness ==
    \E n \in Names :
        /\ UpdatedOwnCache(n)
        /\ HasCall(n, "fetch")
        /\ HasCall(n, "reset")
        /\ HasCall(n, "submodule")

\* ------------------------------------------------------------------------
\* C12: the check comes before every fetch and update
\* ------------------------------------------------------------------------

\* The cache of n is the one the descriptor of the call asks for, judged as
\* the code judges it: the directory and the record file exist and the
\* remembered record, or else the stored one, has the identity of the call.
JudgedValid(n) ==
    /\ PkgExists(n)
    /\ record[n].state # "none"
    /\ IF memo[n].present
       THEN SameIdentity(memo[n].info, args[n])
       ELSE record[n].state = "ok" /\ SameIdentity(record[n].info, args[n])

\* C12: within one call the validity of the cached directory is settled,
\* and an invalid one removed, before any clone, download or update starts:
\* no external call has been made while the call is still checking or
\* deciding, an update starts only on a directory judged valid, and a fetch
\* starts only when no package directory exists.
C12_CheckedBeforeFetchOrUpdate ==
    \A n \in Names :
        /\ pc[n] \in {"idle", "check", "decide"} => calls[n] = <<>>
        /\ pc[n] = "update" => (calls[n] = <<>> /\ JudgedValid(n))
        /\ pc[n] \in {"fetch", "download"} => ~PkgExists(n)
        /\ (HasCall(n, "clone") \/ HasCall(n, "download")) =>
               pc[n] \notin {"idle", "check", "decide", "update"}

\* A call that found a stale directory is about to fetch: REFETCH is logged,
\* the directory is gone, nothing has been fetched yet.
C12_Witness ==
    \E n \in Names :
        /\ pc[n] = "fetch"
        /\ pre[n].pkg.kind # "none"
        /\ HasStatus(n, "REFETCH")
        /\ ~HasCall(n, "clone")

\* ------------------------------------------------------------------------
\* C13: source priority
\* ------------------------------------------------------------------------

\* The positions of the calls of one kind in the call of n.
CallsOf(n, op) == {i \in 1..Len(calls[n]) : calls[n][i].op = op}

\* C13: whatever combination of github_repository, git_repository and url a
\* descriptor gives, a fetch uses one source only: a clone of the GitHub URL
\* when github_repository is given, else a clone of git_repository when that
\* is given, else downloads of the URL; there is at most one clone, never a
\* clone and a download in one call, and a fetch that succeeded used one.
C13_SourcePriority ==
    \A n \in Names :
        LET a == args[n]
        IN /\ Cardinality(CallsOf(n, "clone")) <= 1
           /\ ~(HasCall(n, "clone") /\ HasCall(n, "download"))
           /\ \A i \in CallsOf(n, "clone") :
                IF Truthy(a.github_repository)
                THEN calls[n][i].repo = GithubUrl(a.github_repository)
                ELSE /\ Truthy(a.git_repository)
                     /\ calls[n][i].repo = a.git_repository
           /\ \A i \in CallsOf(n, "download") :
                /\ ~Truthy(a.github_repository)
                /\ ~Truthy(a.git_repository)
                /\ Truthy(a.url)
                /\ calls[n][i].repo = a.url
           /\ pc[n] \in {"download", "extract"} =>
                (~Truthy(a.github_repository) /\ ~Truthy(a.git_repository))
           /\ HasStatus(n, "SUCCESS") =>
                (HasCall(n, "clone") \/ HasCall(n, "download"))

\* A descriptor with all three sources has been fetched, from GitHub.
C13_Witness ==
    \E n \in Names :
        /\ pc[n] = "done"
        /\ HasStatus(n, "SUCCESS")
        /\ Truthy(args[n].github_repository)
        /\ Truthy(args[n].git_repository)
        /\ Truthy(args[n].url)
        /\ \E i \in CallsOf(n, "clone") :
             calls[n][i].repo = GithubUrl(args[n].github_repository)

\* ------------------------------------------------------------------------
\* C14: invocations on different names
\* ------------------------------------------------------------------------

\* The errors a call ends with only because a path it works on is held by
\* another name: mkdir on a regular file, open or rmtree on the wrong kind
\* of entry, rmtree on an entry that has gone.
PathClashErrors == {"FileExists", "IsADirectory", "NotADirectory", "FileNotFound"}

\* C14: invocations on different package names do not interfere: no path
\* one of them writes is a path the other reads, writes or removes, so no
\* call ever finds the download file of another name where its own
\* directory belongs, or the directory of another name where its own
\* download file belongs, and each call ends as it would alone.
C14_DifferentNamesDoNotInterfere ==
    \A n \in Names :
        /\ err[n] \notin PathClashErrors
        /\ pc[n] \in {"fetch", "save"} => ~ParentIsFile(n)
        /\ pc[n] \in {"download", "extract"} => ~TmpIsDir(n)

\* ------------------------------------------------------------------------
\* C15: the package directory and its record live together
\* ------------------------------------------------------------------------

\* C15: at the end of every process_package or clear_package call, returned
\* or raised, the package directory exists exactly when its record exists;
\* and a process_package that returned leaves the directory present and the
\* record equal to the descriptor of the call.
C15_DirectoryAndRecordTogether ==
    \A n \in Names :
        /\ pc[n] \in {"done", "error", "cleared", "clearfailed"} =>
               (PkgExists(n) <=> record[n].state # "none")
        /\ pc[n] = "done" =>
               /\ PkgExists(n)
               /\ record[n] = OkRecord(NewInfo(args[n]))

\* ------------------------------------------------------------------------
\* C16: the result of update_full
\* ------------------------------------------------------------------------

\* update_full has run in the call of n.
UpdateRan(n) == updated[n] # "none" /\ HasCall(n, "fetch")

\* C16 as claimed: update_full returns true exactly when git fetch and git
\* reset both succeed; the submodule update, failing or timing out, does not
\* change the result.
C16_UpdateOkIffFetchAndReset ==
    \A n \in Names :
        UpdateRan(n) =>
            (updated[n] = "ok" <=>
                (gitRun[n].fetch = "ok" /\ gitRun[n].reset = "ok"))

\* C16 amended: update_full returns true exactly when git fetch and git
\* reset both exit with 0 and the submodule update does not time out; a
\* nonzero exit of the submodule update is tolerated.  A command after a
\* failed one is not run, and an error of the call comes from the fetch
\* that follows, never from the update.
C16_UpdateOkIffNoFailureButSubmoduleExit ==
    \A n \in Names :
        UpdateRan(n) =>
            /\ updated[n] = "ok" <=>
                 /\ gitRun[n].fetch = "ok"
                 /\ gitRun[n].reset = "ok"
                 /\ gitRun[n].submodule \in {"ok", "fail"}
            /\ HasCall(n, "reset") <=> gitRun[n].fetch = "ok"
            /\ HasCall(n, "submodule") <=>
                 (gitRun[n].fetch = "ok" /\ gitRun[n].reset = "ok")
            /\ pc[n] = "error" => HasCall(n, "clone")

\* An update has failed on the timeout of its submodule step alone.
C16_Witness ==
    \E n \in Names :
        /\ UpdateRan(n)
        /\ gitRun[n] = GitRun("ok", "ok", "timeout")
        /\ updated[n] = "failed"

\* ------------------------------------------------------------------------
\* C17: the retries of download_with_retry
\* ------------------------------------------------------------------------

\* The download attempts and the waits of the call of n, in order.
DownloadCalls(n) ==
    SelectSeq(calls[n], LAMBDA c : c.op \in {"download", "sleep"})

\* j failed attempts on url, each followed by its wait of 2^k seconds,
\* k = 0 .. j-1.
FailedAttempts(url, j) ==
    [i \in 1..(2 * j) |->
        IF i % 2 = 1 THEN Call("download", url, NoneVal, 0)
        ELSE Call("sleep", NoneVal, NoneVal, 2 ^ ((i \div 2) - 1))]

\* C17: download_with_retry stops at the first attempt that succeeds; while
\* it runs, every failed attempt k has been followed by a wait of 2^k
\* seconds; when all attempts fail with a network or timeout error it has
\* made exactly Retries attempts, waited after all but the last, and fails
\* with a download error; after a success the destination file holds the
\* archive of the successful attempt and nothing of a failed one.
C17_RetrySchedule ==
    \A n \in Names :
        LET url == args[n].url
        IN /\ attempt[n] <= Retries - 1
           /\ pc[n] = "download" =>
                DownloadCalls(n) = FailedAttempts(url, attempt[n])
           /\ (HasCall(n, "download") /\ pc[n] # "download") =>
                DownloadCalls(n) =
                    Append(FailedAttempts(url, attempt[n]),
                           Call("download", url, NoneVal, 0))
           /\ err[n] = "DownloadFailed" => attempt[n] = Retries - 1
           /\ pc[n] = "extract" => tmp[n] \in ArchiveIds

\* All attempts have failed: three attempts, waits of 1 and 2 seconds.
C17_Witness ==
    \E n \in Names :
        /\ err[n] = "DownloadFailed"
        /\ Len(DownloadCalls(n)) = 2 * Retries - 1
        /\ DownloadCalls(n)[2].secs = 1
        /\ DownloadCalls(n)[4].secs = 2
        /\ DownloadCalls(n)[2 * Retries - 1].op = "download"

\* ------------------------------------------------------------------------
\* C18: clear_package
\* ------------------------------------------------------------------------

\* The step is a call of clear_package on n, returned or raised.
ClearStep(n) ==
    pc[n] \in {"idle", "clearing"} /\ pc'[n] \in {"cleared", "clearfailed"}

\* C18: clear_package(name) succeeds in every state, also for a package
\* that is absent; after it the package directory, the record on disk and
\* the remembered record of the name are absent, and the directories,
\* records and remembered records of every other name are as before.
C18_ClearRemovesAllOfOneName ==
    [][\A n \in Names :
         ClearStep(n) =>
            /\ pc'[n] = "cleared"
            /\ ~parent'[n]
            /\ pkg'[n] = NoPkg
            /\ record'[n] = NoRecord
            /\ memo'[n] = NoMemo
            /\ \A m \in Names \ {n} :
                 /\ parent'[m] = parent[m]
                 /\ pkg'[m] = pkg[m]
                 /\ record'[m] = record[m]
                 /\ memo'[m] = memo[m]]_vars

\* ------------------------------------------------------------------------
\* C19: the remembered record and the record on disk
\* ------------------------------------------------------------------------

\* The identities a descriptor can have.
InfoSet == {NewInfo(a) : a \in ArgsSet}

\* C19: after any sequence of process_package and clear_package calls on
\* one instance, and at every step of them, is_cache_valid(name, D, P) is
\* true exactly when P exists and the record on disk is D, and it does not
\* raise; the remembered record of a name, whenever present, is the record
\* on disk.
C19_MemoEqualsDisk ==
    \A n \in Names :
        /\ memo[n].present => record[n] = OkRecord(memo[n].info)
        /\ \A D \in InfoSet :
             /\ ~is_cache_valid(n, D).raised
             /\ is_cache_valid(n, D).valid <=>
                  (PkgExists(n) /\ record[n] = OkRecord(D))

\* A later call of the same instance has found the record of an earlier
\* fetch valid and remembers it.
C19_Witness ==
    \E n \in Names :
        /\ pc[n] = "done"
        /\ HasStatus(n, "CACHED")
        /\ memo[n].present
        /\ record[n] = OkRecord(memo[n].info)

\* ------------------------------------------------------------------------
\* C20: one invalidation, one update, one acquisition, no loop
\* ------------------------------------------------------------------------

\* The steps of a call of process_package on n.
CallStep(n) ==
    \/ CheckCache(n) \/ Decide(n) \/ UpdateRepo(n)
    \/ FetchClone(n) \/ FetchArchive(n) \/ FetchMkdirFails(n) \/ FetchNoSource(n)
    \/ DownloadOk(n) \/ DownloadError(n) \/ DownloadAbort(n)
    \/ DownloadOpenFails(n) \/ ExtractArchive(n) \/ SaveInfo(n)

\* process_package on n is under way.
Running(n) ==
    pc[n] \in {"check", "decide", "update", "fetch", "download", "extract", "save"}

\* How far the call of n has come: the position in process_package, and
\* within the download the number of failed attempts.
Progress(n) ==
    LET rank == CASE pc[n] = "check" -> 1
                  [] pc[n] = "decide" -> 2
                  [] pc[n] = "update" -> 3
                  [] pc[n] = "fetch" -> 4
                  [] pc[n] = "download" -> 5
                  [] pc[n] = "extract" -> 6
                  [] pc[n] = "save" -> 7
                  [] pc[n] \in {"done", "error"} -> 8
                  [] OTHER -> 0
    IN rank * Retries + attempt[n]

StatusCount(n, s) == Cardinality({i \in 1..Len(out[n]) : out[n][i].status = s})

\* C20: every call of process_package ends, returned or raised, after at
\* most one REFETCH, one update attempt and one acquisition (one clone, or
\* one archive download of at most Retries attempts): a call under way can
\* always take a step, every step of it moves it forward and none leads
\* back to an earlier position.
C20_NoLoopInOneCall ==
    [][\A n \in Names :
         /\ Running(n) => ENABLED CallStep(n)
         /\ (Running(n) /\ <<pc[n], attempt[n], calls[n], out[n]>>' #
                           <<pc[n], attempt[n], calls[n], out[n]>>) =>
                Progress(n)' > Progress(n)
         /\ StatusCount(n, "REFETCH")' <= 1
         /\ StatusCount(n, "UPDATE")' <= 1
         /\ Cardinality(CallsOf(n, "fetch"))' <= 1
         /\ Cardinality(CallsOf(n, "clone"))' <= 1
         /\ Cardinality(CallsOf(n, "download"))' <= Retries
         /\ ~(HasCall(n, "clone") /\ HasCall(n, "download"))']_vars

\* A call has gone through all of it: REFETCH of a stale cache is not
\* possible together with an update, so the longest call is an update that
\* failed, the fallback, and a clone, and it has ended.
C20_Witness ==
    \E n \in Names :
        /\ pc[n] = "done"
        /\ StatusCount(n, "UPDATE") = 1
        /\ Cardinality(CallsOf(n, "fetch")) = 1
        /\ Cardinality(CallsOf(n, "clone")) = 1
        /\ HasStatus(n, "SUCCESS")

====
